---- MODULE Spec2Model ----
(***************************************************************************)
(* Model of the logic-simulator front end: the Scanner (src/scanner.py)    *)
(* that turns the lines of a definition file into Symbols, and the Parser  *)
(* (src/parse.py) that consumes them and calls the device, monitor and     *)
(* network builders.                                                       *)
(*                                                                         *)
(* A character is a one-character string, a line is a sequence of          *)
(* characters (its line terminator included, as Python's file iteration    *)
(* yields it) and a file is a sequence of lines.                           *)
(***************************************************************************)
EXTENDS Integers, Sequences, FiniteSets, TLC

VARIABLES
  file,        \* the definition file: a sequence of lines
  gen,         \* the state of the generator symbol_gen held in Scanner.__symbols
  yielded,     \* history: the Symbols get_symbol has returned so far
  line_count,  \* parse_network's local line_count
  calls,       \* history: the builder calls made so far, in order
  pc,          \* "scan" | "loop" | "error" | "done"
  err,         \* the ParsingError caught by parse_network (NoExc before)
  result,      \* how the run ended: "none", "True", "False" or the exception raised
  out,         \* what parse_network has printed
  previous     \* history: how an earlier run over the same file ended (NoRun: none)

vars == <<file, gen, yielded, line_count, calls, pc, err, result, out, previous>>

----------------------------------------------------------------------------
(* Bounds of the model.                                                    *)

\* Largest number of lines of a file.
MaxLines == 2
\* Largest number of characters of a file in the scanner specification.
MaxScanLen == 5

----------------------------------------------------------------------------
(* Python values.                                                          *)

\* Python's None for an identifier or a port: no interned name is empty.
None == <<>>
\* Python's None for Symbol.loc (the EOF symbol carries no location).
NoLoc == -1

----------------------------------------------------------------------------
(* Scanner: symbol type constants, scanner.py lines 53-75.                 *)

CLOCK == 0
SWITCH == 1
AND == 2
OR == 3
NAND == 4
NOR == 5
DTYPE == 6
XOR == 7
DOT == 8
COMMA == 9
OPEN == 10
CLOSE == 11
WHITESPACE == 12
EQUALS == 13
NAME == 14
NUMBER == 15
INVALID == 16
EOL == 17
EOF == 18
MONITOR == 19

\* Symbol(type, id, loc), scanner.py lines 27-31.
Symbol(type, id, loc) == [type |-> type, id |-> id, loc |-> loc]

----------------------------------------------------------------------------
(* Characters and the string methods the scanner uses.                     *)

\* The characters str.strip() removes (those that occur in the model).
Whitespace == {" ", "\t", "\n"}

\* The decimal digits, which int() reads.
Digits == {"0", "1", "2", "3", "4", "5", "6", "7", "8", "9"}

\* The character U+00B2 SUPERSCRIPT TWO, written "^2": str.isdigit() holds
\* of it and int() raises ValueError on it.
Sup2 == "^2"

\* The delimiters of the split pattern that are one character long.
SingleDelims == {".", ",", "(", ")", "="}

\* str.lower() on one character (the upper-case letters of the model).
LowerChar(c) ==
  CASE c = "A" -> "a"
    [] c = "N" -> "n"
    [] c = "D" -> "d"
    [] OTHER -> c

\* str.lower()
Lower(w) == [i \in 1..Len(w) |-> LowerChar(w[i])]

\* str.lstrip() and str.rstrip()
RECURSIVE LStrip(_)
LStrip(w) ==
  IF w # <<>> /\ Head(w) \in Whitespace THEN LStrip(Tail(w)) ELSE w

RECURSIVE RStrip(_)
RStrip(w) ==
  IF w # <<>> /\ w[Len(w)] \in Whitespace
    THEN RStrip(SubSeq(w, 1, Len(w) - 1))
    ELSE w

\* A strip() that removes spaces only, leaving tabs and the newline.
StripSpacesOnly(w) ==
  LET RECURSIVE L(_)
      L(x) == IF x # <<>> /\ Head(x) = " " THEN L(Tail(x)) ELSE x
      RECURSIVE R(_)
      R(x) == IF x # <<>> /\ x[Len(x)] = " " THEN R(SubSeq(x, 1, Len(x) - 1)) ELSE x
  IN R(L(w))

\* str.strip()
Strip(w) == RStrip(LStrip(w))

\* str.isdigit()
IsDigit(w) == w # <<>> /\ \A i \in 1..Len(w) : w[i] \in Digits \cup {Sup2}

\* int(w) raises ValueError: w is not a string of decimal digits.
int_raises(w) == w = <<>> \/ \E i \in 1..Len(w) : w[i] \notin Digits

\* The index after the run of spaces that starts at index i of line.
RECURSIVE SpacesEnd(_, _)
SpacesEnd(line, i) ==
  IF i <= Len(line) /\ line[i] = " " THEN SpacesEnd(line, i + 1) ELSE i

\* re.split(r"(\.|,|\(|\)| +|=)", line) from index i on, cur being the text
\* gathered since the last delimiter: the texts between delimiters (empty
\* ones included) alternate with the delimiters themselves.
RECURSIVE SplitFrom(_, _, _)
SplitFrom(line, i, cur) ==
  IF i > Len(line) THEN <<cur>>
  ELSE IF line[i] \in SingleDelims
    THEN <<cur, <<line[i]>>>> \o SplitFrom(line, i + 1, <<>>)
  ELSE IF line[i] = " "
    THEN <<cur, SubSeq(line, i, SpacesEnd(line, i) - 1)>>
           \o SplitFrom(line, SpacesEnd(line, i), <<>>)
  ELSE SplitFrom(line, i + 1, Append(cur, line[i]))

Split(line) == SplitFrom(line, 1, <<>>)

----------------------------------------------------------------------------
(* Scanner.get_symbol_type, scanner.py lines 109-146.                      *)

get_symbol_type(w) ==
  CASE w = <<"c", "l", "k">> -> CLOCK
    [] w = <<"s", "w">> -> SWITCH
    [] w = <<"a", "n", "d">> -> AND
    [] w = <<"o", "r">> -> OR
    [] w = <<"n", "a", "n", "d">> -> NAND
    [] w = <<"n", "o", "r">> -> NOR
    [] w = <<"d", "t", "y", "p", "e">> -> DTYPE
    [] w = <<"x", "o", "r">> -> XOR
    [] w = <<".">> -> DOT
    [] w = <<",">> -> COMMA
    [] w = <<"(">> -> OPEN
    [] w = <<")">> -> CLOSE
    [] w = <<" ">> -> WHITESPACE
    [] w = <<"=">> -> EQUALS
    [] w = <<>> -> EOL
    [] w = <<"m", "o", "n", "i", "t", "o", "r">> -> MONITOR
    [] OTHER -> IF IsDigit(w) THEN NUMBER ELSE NAME

----------------------------------------------------------------------------
(* The name interner (names.Names): an injective map from strings to ids   *)
(* and back.  The id is modelled by the looked-up string itself.           *)

lookup(s) == s
get_name_string(id) == id

----------------------------------------------------------------------------
(* Scanner.__init__.symbol_gen, scanner.py lines 83-98, as the state of    *)
(* the suspended generator: the line being read, the index of the next     *)
(* fragment of its split, loc, and whether the EOF has been yielded.       *)

\* The generator of an earlier Scanner handed to the next run as it was left.
GenLeftOver ==
  IF pc = "done" THEN gen ELSE [line |-> 1, w |-> 1, loc |-> 0, eof |-> FALSE]

GenInit == [line |-> 1, w |-> 1, loc |-> 0, eof |-> FALSE]

\* No Symbol: the value of ParsingError.sym when none is given, and what
\* stands for the Symbol when next() raises StopIteration.
NoSym == [type |-> -1, id |-> None, loc |-> NoLoc]

\* The offset added to a fragment's start to give the Symbol's loc.
LocOf(g, w) == g.loc

\* next(symbol_gen): runs the generator from state g to its next yield;
\* stop tells that it ended instead (StopIteration).
RECURSIVE gen_next(_, _)
gen_next(f, g) ==
  IF g.eof THEN [sym |-> NoSym, gen |-> g, stop |-> TRUE]
  ELSE IF g.line > Len(f)
    THEN [sym |-> Symbol(EOF, None, NoLoc), gen |-> [g EXCEPT !.eof = TRUE],
          stop |-> FALSE]
  ELSE
    LET frags == Split(f[g.line]) IN
    IF g.w > Len(frags)
      THEN [sym |-> Symbol(EOL, None, g.loc),
            gen |-> [line |-> g.line + 1, w |-> 1, loc |-> 0, eof |-> FALSE],
            stop |-> FALSE]
    ELSE
      LET w == frags[g.w]
          s == Strip(Lower(w))
          g2 == [g EXCEPT !.w = @ + 1, !.loc = @ + Len(w)]
      IN IF s # <<>>
           THEN [sym |-> Symbol(get_symbol_type(s), lookup(s), LocOf(g, w)),
                 gen |-> g2, stop |-> FALSE]
           ELSE gen_next(f, g2)

----------------------------------------------------------------------------
(* Input files.  `for line in f` (scanner.py line 85, and next(f) at line  *)
(* 106) cuts the text of the file after every newline; text that follows   *)
(* the last newline is a last line without terminator.                     *)

RECURSIVE ReadLinesFrom(_, _, _)
ReadLinesFrom(text, i, cur) ==
  IF i > Len(text) THEN (IF cur = <<>> THEN <<>> ELSE <<cur>>)
  ELSE IF text[i] = "\n"
    THEN <<Append(cur, "\n")>> \o ReadLinesFrom(text, i + 1, <<>>)
  ELSE ReadLinesFrom(text, i + 1, Append(cur, text[i]))

ReadLines(text) == ReadLinesFrom(text, 1, <<>>)

RECURSIVE SeqsUpTo(_, _)
SeqsUpTo(S, n) ==
  IF n = 0 THEN {<<>>}
  ELSE LET shorter == SeqsUpTo(S, n - 1)
       IN shorter \cup {Append(s, x) : s \in {t \in shorter : Len(t) = n - 1}, x \in S}

\* The scanner specification reads every text of at most MaxScanLen of
\* these characters.
ScanChars == {"a", " ", "\t", "(", "\n"}

ScanFiles == {ReadLines(t) : t \in SeqsUpTo(ScanChars, MaxScanLen)}

----------------------------------------------------------------------------
(* Initial values shared by the specifications.                            *)

NoExc == [exc |-> "none", message |-> "", sym |-> NoSym]

\* No earlier run has been made.
NoRun == [calls |-> <<>>, result |-> "none", out |-> [message |-> "", lines |-> <<>>]]

InitRest ==
  /\ previous = NoRun
  /\ gen = GenInit
  /\ yielded = <<>>
  /\ line_count = 1
  /\ calls = <<>>
  /\ err = NoExc
  /\ result = "none"
  /\ out = [message |-> "", lines |-> <<>>]

----------------------------------------------------------------------------
(* The scanner alone: get_symbol called until the generator is exhausted.  *)

InitScan ==
  /\ file \in ScanFiles
  /\ pc = "scan"
  /\ InitRest

\* Scanner.get_symbol, scanner.py lines 148-150.
get_symbol ==
  /\ pc = "scan"
  /\ LET r == gen_next(file, gen) IN
       IF r.stop
         THEN /\ pc' = "done"
              /\ result' = "StopIteration"
              /\ UNCHANGED <<gen, yielded>>
         ELSE /\ gen' = r.gen
              /\ yielded' = Append(yielded, r.sym)
              /\ UNCHANGED <<pc, result>>
  /\ UNCHANGED <<file, line_count, calls, err, out, previous>>

NextScan == get_symbol

SpecScan == InitScan /\ [][NextScan]_vars

----------------------------------------------------------------------------
(* Parser.  A handler is an operator on a context c: the generator state,  *)
(* the Symbols fetched and the builder calls made so far, the exception    *)
(* being propagated (NoExc while none is), and the handler's locals: sym,  *)
(* the Symbol last fetched, ret, the value the last call returned, and     *)
(* device_id, port_id, number and args.  Every step leaves a context in    *)
(* which an exception is propagating as it is.                             *)

\* ParsingError(message, sym), parse.py lines 15-18.
ParsingError(message, sym) ==
  [exc |-> "ParsingError", message |-> message, sym |-> sym]

Ok(c) == c.exc.exc = "none"

Raise(c, e) == IF Ok(c) THEN [c EXCEPT !.exc = e] ELSE c

\* The ValueError of int(), which no except clause of the parser catches.
ValueError == [exc |-> "ValueError", message |-> "", sym |-> NoSym]

\* The Symbol r.sym that next() returned becomes the local sym.
fetched_into(c, r) ==
  IF r.stop
    THEN Raise(c, [exc |-> "StopIteration", message |-> "", sym |-> NoSym])
    ELSE [c EXCEPT !.gen = r.gen, !.yielded = Append(@, r.sym), !.sym = r.sym]

\* sym = self.__scanner.get_symbol()
get_sym(c) == IF Ok(c) THEN fetched_into(c, gen_next(file, c.gen)) ELSE c

\* if sym.type != type: raise ParsingError(message, sym=sym)
require(c, type, message) ==
  IF Ok(c) /\ c.sym.type # type
    THEN Raise(c, ParsingError(message, c.sym))
    ELSE c

\* return sym.id
return_id(c) == IF Ok(c) THEN [c EXCEPT !.ret = c.sym.id] ELSE c

\* device_id = <the value returned>
set_device_id(c) == IF Ok(c) THEN [c EXCEPT !.device_id = c.ret] ELSE c

\* port_id = <the value returned>
set_port_id(c) == IF Ok(c) THEN [c EXCEPT !.port_id = c.ret] ELSE c

\* int() of a string of digits.
DigitChars == <<"0", "1", "2", "3", "4", "5", "6", "7", "8", "9">>

RECURSIVE int(_)
int(w) ==
  IF w = <<>> THEN 0
  ELSE 10 * int(SubSeq(w, 1, Len(w) - 1))
         + (CHOOSE d \in 0..9 : DigitChars[d + 1] = w[Len(w)])

\* A builder call is recorded in calls with its keyword arguments and at,
\* the number of Symbols fetched when it is made.
Record(c, call) == IF Ok(c) THEN [c EXCEPT !.calls = Append(@, call)] ELSE c

\* Parser._parse_identifier, parse.py lines 109-113.
_parse_identifier(c) ==
  return_id(require(get_sym(c), NAME, "Expecting user-defined name"))

\* Parser._parse_open_bracket, parse.py lines 129-132.
_parse_open_bracket(c) == require(get_sym(c), OPEN, "Expecting open bracket")

\* The Symbol after the literal fetched and taken for the bracket unseen.
_parse_close_bracket_unseen(c) == get_sym(c)

\* Parser._parse_close_bracket, parse.py lines 134-137.
_parse_close_bracket(c) == require(get_sym(c), CLOSE, "Expecting close bracket")

\* Parser._parse_dot, parse.py lines 139-142.
_parse_dot(c) == require(get_sym(c), DOT, "Expecting '.'")

\* The largest number of inputs of a gate, parse.py line 167.
MaxGateInputs == 16

\* An XOR gate given the largest number of inputs instead of two.
XorInputsAsLargest == MaxGateInputs

\* The number of inputs of an XOR gate, parse.py line 148.
XorInputs == 2

\* The check of parse.py line 162: the literal starts with "0".
LeadingZero(number) == number[1] = "0"

\* The range check with >= for >: 16 inputs are refused.
OutOfRangeFrom16(no_of_inputs) == no_of_inputs >= MaxGateInputs \/ no_of_inputs < 1

\* no_of_inputs > 16 or no_of_inputs < 1, parse.py line 167.
OutOfRange(no_of_inputs) == no_of_inputs > MaxGateInputs \/ no_of_inputs < 1

\* The try block of Parser._parse_gate, parse.py lines 154-170, c being the
\* context in which the Symbol after the open bracket has been fetched.
gate_inputs(c) ==
  IF ~Ok(c) THEN c
  ELSE IF c.sym.type # NUMBER
    THEN Raise(c, ParsingError("Expecting a number > 0", c.sym))
  ELSE IF LeadingZero(get_name_string(c.sym.id))
    THEN Raise(c, ParsingError("Expecting a number > 0", c.sym))
  ELSE IF int_raises(get_name_string(c.sym.id)) THEN Raise(c, ValueError)
  ELSE IF OutOfRange(int(get_name_string(c.sym.id)))
    THEN Raise(c, ParsingError("Expecting a number from 1-16", c.sym))
  ELSE [c EXCEPT !.number = int(get_name_string(c.sym.id))]

\* self.__devices.make_gate(device_kind, device_id, no_of_inputs)
make_gate(c, device_kind, no_of_inputs) ==
  Record(c, [fn |-> "make_gate", device_kind |-> device_kind,
             device_id |-> c.device_id, no_of_inputs |-> no_of_inputs,
             at |-> Len(c.yielded)])

\* The gate made with the default of line 148 instead of the number read.
make_default_gate(c, device_kind) == make_gate(c, device_kind, XorInputs)

\* The gate with the number of inputs read between the brackets.
make_counted_gate(c, device_kind) == make_gate(c, device_kind, c.number)

\* Parser._parse_gate, parse.py lines 144-176.
_parse_gate(c, device_kind) ==
  IF device_kind # "XOR"
    THEN make_counted_gate(
           _parse_close_bracket(
             gate_inputs(
               get_sym(
                 _parse_open_bracket(
                   set_device_id(_parse_identifier(c)))))),
           device_kind)
    ELSE make_gate(set_device_id(_parse_identifier(c)), device_kind, XorInputs)

\* The try block of Parser._parse_CLOCK, parse.py lines 206-223.
clock_half_period(c) ==
  IF ~Ok(c) THEN c
  ELSE IF c.sym.type # NUMBER
    THEN Raise(c, ParsingError("Expecting a number > 0", c.sym))
  ELSE IF get_name_string(c.sym.id)[1] = "0"
    THEN Raise(c, ParsingError("Expecting a number > 0", c.sym))
  ELSE IF int_raises(get_name_string(c.sym.id)) THEN Raise(c, ValueError)
  ELSE IF int(get_name_string(c.sym.id)) < 1
    THEN Raise(c, ParsingError("Expecting a number > 0", c.sym))
  ELSE [c EXCEPT !.number = int(get_name_string(c.sym.id))]

\* self.__devices.make_clock(device_id, clock_half_period)
make_clock(c) ==
  Record(c, [fn |-> "make_clock", device_id |-> c.device_id,
             clock_half_period |-> c.number, at |-> Len(c.yielded)])

\* The body of Parser._parse_CLOCK, parse.py lines 199-227.
_parse_CLOCK_body(c) ==
  make_clock(
    _parse_close_bracket(
      clock_half_period(
        get_sym(
          _parse_open_bracket(
            set_device_id(_parse_identifier(c)))))))

\* initial_state not in [0, 1], parse.py line 245.
InvalidState(initial_state) == initial_state \notin {0, 1}

\* The try block of Parser._parse_SWITCH, parse.py lines 237-249.
initial_state(c) ==
  IF ~Ok(c) THEN c
  ELSE IF c.sym.type # NUMBER
    THEN Raise(c, ParsingError("Expecting 0 or 1", c.sym))
  ELSE IF int_raises(get_name_string(c.sym.id)) THEN Raise(c, ValueError)
  ELSE IF InvalidState(int(get_name_string(c.sym.id)))
    THEN Raise(c, ParsingError("Expecting 0 or 1", c.sym))
  ELSE [c EXCEPT !.number = int(get_name_string(c.sym.id))]

\* self.__devices.make_switch(device_id, initial_state)
make_switch(c) ==
  Record(c, [fn |-> "make_switch", device_id |-> c.device_id,
             initial_state |-> c.number, at |-> Len(c.yielded)])

\* The body of Parser._parse_SWITCH, parse.py lines 230-254.
_parse_SWITCH_body(c) ==
  make_switch(
    _parse_close_bracket(
      initial_state(
        get_sym(
          _parse_open_bracket(
            set_device_id(_parse_identifier(c)))))))

\* self.__devices.make_dtype(device_id)
make_dtype(c) ==
  Record(c, [fn |-> "make_dtype", device_id |-> c.device_id, at |-> Len(c.yielded)])

\* The body of Parser._parse_DTYPE, parse.py lines 257-260.
_parse_DTYPE_body(c) == make_dtype(set_device_id(_parse_identifier(c)))

----------------------------------------------------------------------------
(* The collaborators the parser queries: the device registry               *)
(* (devices.Devices), the monitor registry (monitors.Monitors) and the     *)
(* network (network.Network), as the calls made so far determine them.     *)

DeviceCalls == {"make_gate", "make_clock", "make_switch", "make_dtype"}

\* The device_kind of the device a builder call makes.
KindOf(call) ==
  CASE call.fn = "make_gate" -> call.device_kind
    [] call.fn = "make_clock" -> "CLOCK"
    [] call.fn = "make_switch" -> "SWITCH"
    [] call.fn = "make_dtype" -> "D_TYPE"

Makes(call, device_id) == call.fn \in DeviceCalls /\ call.device_id = device_id

Declared(cs, device_id) == \E i \in 1..Len(cs) : Makes(cs[i], device_id)

\* self.__devices.get_device(device_id).device_kind, "None" for no device:
\* the device of the first builder call that made one with this id.
get_device(cs, device_id) ==
  IF ~Declared(cs, device_id) THEN "None"
  ELSE KindOf(cs[CHOOSE j \in 1..Len(cs) :
                   /\ Makes(cs[j], device_id)
                   /\ \A k \in 1..(j - 1) : ~Makes(cs[k], device_id)])

\* The output ports of a D-type element.
DtypeOutputs == {<<"q">>, <<"q", "b", "a", "r">>}

Monitored(cs, device_id, output_id) ==
  \E i \in 1..Len(cs) :
    /\ cs[i].fn = "make_monitor"
    /\ cs[i].device_id = device_id
    /\ cs[i].output_id = output_id
    /\ cs[i].status = "NO_ERROR"

\* The status self.__monitors.make_monitor(device_id, output_id) returns.
monitor_status(cs, device_id, output_id) ==
  IF ~Declared(cs, device_id) THEN "DEVICE_ABSENT"
  ELSE IF get_device(cs, device_id) = "D_TYPE" /\ output_id \notin DtypeOutputs
    THEN "NOT_OUTPUT"
  ELSE IF get_device(cs, device_id) # "D_TYPE" /\ output_id # None
    THEN "NOT_OUTPUT"
  ELSE IF Monitored(cs, device_id, output_id) THEN "MONITOR_PRESENT"
  ELSE "NO_ERROR"

\* The status self.__network.make_connection(*args) returns.
connection_status(cs, args) ==
  IF Declared(cs, args[1]) /\ Declared(cs, args[3])
    THEN "NO_ERROR"
    ELSE "DEVICE_ABSENT"

\* parse.py lines 119-121: the device is looked up and must exist.
check_declared(c) ==
  IF Ok(c) /\ get_device(c.calls, c.device_id) = "None"
    THEN Raise(c, ParsingError("Undeclared device", NoSym))
    ELSE c

\* The '.' and the port asked of every device, whatever its kind.
output_port_always(c) ==
  IF Ok(c) THEN set_port_id(_parse_identifier(_parse_dot(c))) ELSE c

\* parse.py lines 123-125: a D-type device needs '.' and a port.
output_port(c) ==
  IF Ok(c) /\ get_device(c.calls, c.device_id) = "D_TYPE"
    THEN set_port_id(_parse_identifier(_parse_dot(c)))
    ELSE c

\* port_id = None
no_port(c) == IF Ok(c) THEN [c EXCEPT !.port_id = None] ELSE c

\* Parser._parse_output, parse.py lines 115-127; the pair it returns is
\* (c.device_id, c.port_id).
_parse_output(c) ==
  output_port(check_declared(no_port(set_device_id(_parse_identifier(c)))))

\* parse.py lines 269-274: the error code of make_monitor, if any, raises.
monitor_error(c, error_code) ==
  IF error_code = "DEVICE_ABSENT"
    THEN Raise(c, ParsingError("Undeclared device", NoSym))
  ELSE IF error_code = "NOT_OUTPUT"
    THEN Raise(c, ParsingError("Not monitoring output", NoSym))
  ELSE IF error_code = "MONITOR_PRESENT"
    THEN Raise(c, ParsingError("Monitor present", NoSym))
  ELSE c

\* self.__monitors.make_monitor(device_id, output_id) and the check of the
\* error code it returns, parse.py lines 266-274.
make_monitor(c) ==
  IF ~Ok(c) THEN c
  ELSE monitor_error(
         Record(c, [fn |-> "make_monitor", device_id |-> c.device_id,
                    output_id |-> c.port_id,
                    status |-> monitor_status(c.calls, c.device_id, c.port_id),
                    at |-> Len(c.yielded)]),
         monitor_status(c.calls, c.device_id, c.port_id))

\* The body of Parser._parse_monitor, parse.py lines 263-274.
_parse_monitor_body(c) == make_monitor(_parse_output(c))

\* args[i] = <the value returned>
set_arg(c, i) == IF Ok(c) THEN [c EXCEPT !.args[i] = c.ret] ELSE c

\* The statement taken as ended by any Symbol but '.' after the second
\* device.
second_port_lenient(c) ==
  IF ~Ok(c) \/ c.sym.type # DOT THEN c
  ELSE require(get_sym(set_arg(_parse_identifier(c), 4)), EOL, "Expecting EOL")

\* parse.py lines 285-296, c being the context in which the Symbol after
\* the second device has been fetched.
second_port(c) ==
  IF ~Ok(c) \/ c.sym.type = EOL THEN c
  ELSE require(
         get_sym(
           set_arg(
             _parse_identifier(require(c, DOT, "Expecting '.'")),
             4)),
         EOL, "Expecting EOL")

\* parse_right of Parser._parse_connection, parse.py lines 279-296.
parse_right(c) == second_port(get_sym(set_arg(_parse_identifier(c), 3)))

\* parse.py lines 318-321: make_connection and the check of its error code.
make_connection(c) ==
  IF ~Ok(c) THEN c
  ELSE IF connection_status(c.calls, c.args) # "NO_ERROR"
    THEN Raise(Record(c, [fn |-> "make_connection", args |-> c.args,
                          status |-> connection_status(c.calls, c.args),
                          at |-> Len(c.yielded)]),
               ParsingError("Network error", NoSym))
  ELSE Record(c, [fn |-> "make_connection", args |-> c.args,
                  status |-> "NO_ERROR", at |-> Len(c.yielded)])

\* parse.py lines 302-314: the first port, '=' and the right-hand side.
first_port(c) ==
  parse_right(
    require(
      get_sym(set_arg(return_id(require(get_sym(c), NAME, "Expecting port name")), 2)),
      EQUALS, "Expecting '='"))

\* parse.py lines 298-316, c being the context in which the Symbol after
\* the first device has been fetched.
connection_sides(c) ==
  IF ~Ok(c) THEN c
  ELSE IF c.sym.type = EQUALS THEN parse_right(c)
  ELSE IF c.sym.type = DOT THEN first_port(c)
  ELSE Raise(c, ParsingError("Expecting . or =", c.sym))

\* args without the first device.
init_args_empty(c) == [c EXCEPT !.args = <<None, None, None, None>>]

\* args = [sym.id, None, None, None], parse.py line 277.
init_args(c) == [c EXCEPT !.args = <<c.sym.id, None, None, None>>]

\* Parser._parse_connection, parse.py lines 276-321, c being the context in
\* which the leading NAME has been fetched.
_parse_connection(c) == make_connection(connection_sides(get_sym(init_args(c))))

\* The function the decorator wraps, by the type of the statement keyword.
parse(type, c) ==
  CASE type = AND -> _parse_gate(c, "AND")
    [] type = OR -> _parse_gate(c, "OR")
    [] type = NAND -> _parse_gate(c, "NAND")
    [] type = NOR -> _parse_gate(c, "NOR")
    [] type = XOR -> _parse_gate(c, "XOR")
    [] type = CLOCK -> _parse_CLOCK_body(c)
    [] type = SWITCH -> _parse_SWITCH_body(c)
    [] type = DTYPE -> _parse_DTYPE_body(c)
    [] type = MONITOR -> _parse_monitor_body(c)

\* The loop left on every Symbol that is no comma.
separator_lenient(c) ==
  IF ~Ok(c) THEN "raise"
  ELSE IF c.sym.type = COMMA THEN "parse"
  ELSE "break"

\* The step of the while loop of Parser.multiple's wrapper on the Symbol
\* fetched, parse.py lines 99-104: "break", "parse" or "raise".
separator(c) ==
  IF ~Ok(c) THEN "raise"
  ELSE IF c.sym.type = EOL THEN "break"
  ELSE IF c.sym.type # COMMA THEN "raise"
  ELSE "parse"

\* The while loop of Parser.multiple's wrapper, parse.py lines 97-106, c
\* being the context in which the Symbol of line 98 has been fetched.
RECURSIVE multiple_loop(_, _)
multiple_loop(type, c) ==
  IF separator(c) = "break" THEN c
  ELSE IF separator(c) = "raise" THEN Raise(c, ParsingError("Expecting ','", c.sym))
  ELSE multiple_loop(type, get_sym(parse(type, c)))

\* Parser.multiple, parse.py lines 93-107: the decorated handler.
multiple(type, c) == multiple_loop(type, get_sym(parse(type, c)))

\* The decorated handlers, parse.py lines 178-263.
_parse_AND(c) == multiple(AND, c)
_parse_OR(c) == multiple(OR, c)
_parse_NAND(c) == multiple(NAND, c)
_parse_NOR(c) == multiple(NOR, c)
_parse_XOR(c) == multiple(XOR, c)
_parse_CLOCK(c) == multiple(CLOCK, c)
_parse_SWITCH(c) == multiple(SWITCH, c)
_parse_DTYPE(c) == multiple(DTYPE, c)
_parse_monitor(c) == multiple(MONITOR, c)

----------------------------------------------------------------------------
(* Input files of the parser specification: every file of at most MaxLines *)
(* of the lines below, a line without newline being the last one.          *)

Lines == {
  <<"a", "n", "d", " ", "a", "(", "2", ")", "\n">>,   \* and a(2)\n
  <<"n", "a", "n", "d", " ", "b", "(", "1", "6", ")", ",", " ", "c", "(", "1", ")", "\n">>,   \* nand b(16), c(1)\n
  <<"a", "n", "d", " ", "a", "(", "2", ")", ",", " ", "b", "(", "a", "b", "c", ")", "\n">>,   \* and a(2), b(abc)\n
  <<"n", "o", "r", " ", "a", "(", "1", "7", ")", "\n">>,   \* nor a(17)\n
  <<"o", "r", " ", "b", "(", "0", "1", ")", "\n">>,   \* or b(01)\n
  <<"x", "o", "r", " ", "x", ",", " ", "y", "\n">>,   \* xor x, y\n
  <<"c", "l", "k", " ", "c", "(", "5", ")", "\n">>,   \* clk c(5)\n
  <<"s", "w", " ", "s", "(", "2", ")", "\n">>,   \* sw s(2)\n
  <<"s", "w", " ", "s", "(", "0", ")", "\n">>,   \* sw s(0)\n
  <<"d", "t", "y", "p", "e", " ", "d", "\n">>,   \* dtype d\n
  <<"m", "o", "n", "i", "t", "o", "r", " ", "a", "\n">>,   \* monitor a\n
  <<"m", "o", "n", "i", "t", "o", "r", " ", "d", ".", "q", "\n">>,   \* monitor d.q\n
  <<"m", "o", "n", "i", "t", "o", "r", " ", "a", ".", "q", "\n">>,   \* monitor a.q\n
  <<"a", " ", "=", " ", "d", ".", "d", "a", "t", "a", "\n">>,   \* a = d.data\n
  <<"d", ".", "q", " ", "=", " ", "a", ".", "i", "1", "\n">>,   \* d.q = a.i1\n
  <<"a", " ", "b", "\n">>,   \* a b\n
  <<"\n">>,   \* \n
  <<")", " ", ")", "\n">>,   \* ) )\n
  <<" ", " ", "a", "n", "d", " ", "a", "(", "2", ")", "\n">>,   \*   and a(2)\n
  <<"\t", "a", "n", "d", " ", "a", "(", "3", ")", "\n">>,   \* \tand a(3)\n
  <<" ", " ", "n", "o", "r", " ", "a", "(", "1", "7", ")", "\n">>,   \*   nor a(17)\n
  <<"A", "N", "D", " ", "A", "(", "2", ")", "\n">>,   \* AND A(2)\n
  <<"a", "n", "d", " ", "a", "(", "2", ")", " ", "b", "(", "3", ")", "\n">>,   \* and a(2) b(3)\n
  <<"1", " ", "s", "w", " ", "s", "(", "7", ")", "\n">>,   \* 1 sw s(7)\n
  <<".", " ", ",", " ", "(", " ", "=", " ", "7", "\n">>,   \* . , ( = 7\n
  <<"a", "n", "d", " ", "a", "(", "2">>    \* and a(2
}

\* The files Python can read as this sequence of lines: only the last
\* line may lack its newline.
IsFile(f) == \A i \in 1..(Len(f) - 1) : f[i][Len(f[i])] = "\n"

Files == {f \in SeqsUpTo(Lines, MaxLines) : IsFile(f)}

----------------------------------------------------------------------------
(* Parser.parse_network, parse.py lines 52-91: one action for each branch  *)
(* of the loop body, and one for the except clause.                        *)

Init ==
  /\ file \in Files
  /\ pc = "loop"
  /\ InitRest

\* The context of the loop body before it fetches its Symbol.
Ctx ==
  [gen |-> gen, yielded |-> yielded, calls |-> calls, exc |-> NoExc,
   sym |-> NoSym, ret |-> None, device_id |-> None, port_id |-> None,
   number |-> 0, args |-> <<None, None, None, None>>]

\* sym = self.__scanner.get_symbol(), parse.py line 57.
Fetched == get_sym(Ctx)

\* The types that a branch of the loop body matches.
Dispatched == {EOF, AND, NAND, OR, NOR, XOR, CLOCK, DTYPE, SWITCH, MONITOR, NAME}

\* The end of the loop body in context c: line_count += 1 (line 83) when no
\* exception is propagating, the except clause is entered on a
\* ParsingError, and any other exception leaves parse_network.
Finish(c) ==
  /\ gen' = c.gen
  /\ yielded' = c.yielded
  /\ calls' = c.calls
  /\ IF Ok(c)
       THEN /\ line_count' = line_count + 1
            /\ UNCHANGED <<pc, err, result>>
       ELSE IF c.exc.exc = "ParsingError"
         THEN /\ pc' = "error"
              /\ err' = c.exc
              /\ UNCHANGED <<line_count, result>>
         ELSE /\ pc' = "done"
              /\ result' = c.exc.exc
              /\ UNCHANGED <<line_count, err>>
  /\ UNCHANGED <<file, out, previous>>

\* The loop without its break: the EOF is passed over like a Symbol that
\* no branch matches.
loop_EOF_passed == pc = "loop" /\ Fetched.sym.type = EOF /\ Finish(Fetched)

\* if sym.type == Scanner.EOF: break, then return True (lines 59-60, 91).
loop_EOF ==
  /\ pc = "loop"
  /\ Fetched.sym.type = EOF
  /\ gen' = Fetched.gen
  /\ yielded' = Fetched.yielded
  /\ pc' = "done"
  /\ result' = "True"
  /\ UNCHANGED <<file, line_count, calls, err, out, previous>>

loop_AND == pc = "loop" /\ Fetched.sym.type = AND /\ Finish(_parse_AND(Fetched))

loop_NAND == pc = "loop" /\ Fetched.sym.type = NAND /\ Finish(_parse_NAND(Fetched))

loop_OR == pc = "loop" /\ Fetched.sym.type = OR /\ Finish(_parse_OR(Fetched))

loop_NOR == pc = "loop" /\ Fetched.sym.type = NOR /\ Finish(_parse_NOR(Fetched))

loop_XOR == pc = "loop" /\ Fetched.sym.type = XOR /\ Finish(_parse_XOR(Fetched))

loop_CLOCK == pc = "loop" /\ Fetched.sym.type = CLOCK /\ Finish(_parse_CLOCK(Fetched))

loop_DTYPE == pc = "loop" /\ Fetched.sym.type = DTYPE /\ Finish(_parse_DTYPE(Fetched))

loop_SWITCH == pc = "loop" /\ Fetched.sym.type = SWITCH /\ Finish(_parse_SWITCH(Fetched))

loop_MONITOR == pc = "loop" /\ Fetched.sym.type = MONITOR /\ Finish(_parse_monitor(Fetched))

loop_NAME == pc = "loop" /\ Fetched.sym.type = NAME /\ Finish(_parse_connection(Fetched))

\* An else branch that refuses the Symbol no branch matches.
loop_other_refused ==
  /\ pc = "loop"
  /\ Fetched.sym.type \notin Dispatched
  /\ Finish(Raise(Fetched, ParsingError("Unexpected symbol", Fetched.sym)))

\* No branch matches the Symbol (or get_symbol raised): only line 83 runs.
loop_other == pc = "loop" /\ Fetched.sym.type \notin Dispatched /\ Finish(Fetched)

\* str(n) for n >= 0.
RECURSIVE str(_)
str(n) ==
  IF n < 10 THEN <<<<"0", "1", "2", "3", "4", "5", "6", "7", "8", "9">>[n + 1]>>
  ELSE str(n \div 10) \o str(n % 10)

\* " " * n
Spaces(n) == [i \in 1..n |-> " "]

\* What print(a, b) writes: the two strings with a space between.
print2(a, b) == a \o <<" ">> \o b

\* The line number of the file that the except clause displays.
ErrorLine == line_count

\* Scanner.get_line(number) raises StopIteration when the file has fewer
\* than number lines (next(f), scanner.py line 106).
get_line_stops(number) == number > Len(file)

\* Scanner.get_line(number), scanner.py lines 102-107.
get_line(number) == Strip(file[number])

\* The caret line of parse.py line 89.
caret_line(sym) ==
  print2(Spaces(Len(str(line_count) \o <<" ">>)), Spaces(sym.loc) \o <<"^">>)

\* except ParsingError as e, parse.py lines 84-90: out.lines are the lines
\* printed after the message.
except ==
  /\ pc = "error"
  /\ pc' = "done"
  /\ IF get_line_stops(ErrorLine)
       THEN /\ out' = [message |-> err.message, lines |-> << <<>> >>]
            /\ result' = "StopIteration"
       ELSE /\ out' = [message |-> err.message,
                       lines |-> << <<>>,
                                   print2(str(line_count) \o <<" ">>, get_line(ErrorLine)) >>
                                 \o (IF err.sym # NoSym
                                       THEN <<caret_line(err.sym)>>
                                       ELSE <<>>)]
            /\ result' = "False"
  /\ UNCHANGED <<file, gen, yielded, line_count, calls, err, previous>>

Next ==
  \/ loop_EOF
  \/ loop_AND
  \/ loop_NAND
  \/ loop_OR
  \/ loop_NOR
  \/ loop_XOR
  \/ loop_CLOCK
  \/ loop_DTYPE
  \/ loop_SWITCH
  \/ loop_MONITOR
  \/ loop_NAME
  \/ loop_other
  \/ except

Spec == Init /\ [][Next]_vars

----------------------------------------------------------------------------
(* Two runs over the same file.  When the first run has ended, a second    *)
(* Scanner and a second Parser are constructed for the same path with      *)
(* collaborators that are in their initial state again (scanner.py lines   *)
(* 77-100, parse.py lines 44-54), and parse_network is run once more; what *)
(* the first run did is kept in previous.                                  *)

second_run ==
  /\ pc = "done"
  /\ previous = NoRun
  /\ previous' = [calls |-> calls, result |-> result, out |-> out]
  /\ gen' = GenInit
  /\ yielded' = <<>>
  /\ line_count' = 1
  /\ calls' = <<>>
  /\ err' = NoExc
  /\ result' = "none"
  /\ out' = [message |-> "", lines |-> <<>>]
  /\ pc' = "loop"
  /\ UNCHANGED file

NextTwice == Next \/ second_run

SpecTwice == Init /\ [][NextTwice]_vars

----------------------------------------------------------------------------
(* Input files of the gate specification: gate statements built from a     *)
(* keyword and instances name(literal).  A file has at most MaxLines       *)
(* lines; the parser reads nothing after the first line that fails, so the *)
(* lines before the last one are lines that parse.                         *)

\* name(literal)
Counted(name, literal) == name \o <<"(">> \o literal \o <<")">>

\* keyword instance\n
Statement1(keyword, i1) == keyword \o <<" ">> \o i1 \o <<"\n">>

\* keyword instance, instance\n
Statement2(keyword, i1, i2) ==
  keyword \o <<" ">> \o i1 \o <<",", " ">> \o i2 \o <<"\n">>

\* The files of at most MaxLines lines: lines of good, then one of last.
FilesEnding(good, last) ==
  {<<>>} \cup {Append(h, l) : h \in SeqsUpTo(good, MaxLines - 1), l \in last}

\* Literals that _parse_gate accepts.
GoodCounts == {
  <<"1">>,   \* 1
  <<"2">>,   \* 2
  <<"9">>,   \* 9
  <<"1", "0">>,   \* 10
  <<"1", "6">>    \* 16
}

\* Literals that it does not accept.
BadCounts == {
  <<"1", "7">>,   \* 17
  <<"2", "0">>,   \* 20
  <<"1", "0", "0">>,   \* 100
  <<"0">>,   \* 0
  <<"0", "0">>,   \* 00
  <<"0", "1">>,   \* 01
  <<"0", "1", "6">>,   \* 016
  <<"a", "b">>,   \* ab
  <<"1", "a">>,   \* 1a
  <<"^2">>,   \* ^2
  <<"1", "^2">>,   \* 1^2
  <<>>,   \* (empty)
  <<"a", "n", "d">>    \* and
}

CountedKeywords == {
  <<"a", "n", "d">>,   \* and
  <<"o", "r">>,   \* or
  <<"n", "a", "n", "d">>,   \* nand
  <<"n", "o", "r">>    \* nor
}

\* More statements that parse, and an empty line.
OtherGoodGateLines == {
  <<"o", "r", " ", "a", "(", "1", ")", ",", " ", "b", "(", "2", ")", ",", " ", "c", "(", "1", "6", ")", "\n">>,   \* or a(1), b(2), c(16)\n
  <<"x", "o", "r", " ", "a", "\n">>,   \* xor a\n
  <<"x", "o", "r", " ", "a", ",", " ", "b", "\n">>,   \* xor a, b\n
  <<"x", "o", "r", " ", "a", ",", " ", "b", ",", " ", "c", "\n">>,   \* xor a, b, c\n
  <<"\n">>,   \* \n
  <<" ", " ", "A", "N", "D", " ", "A", "(", "3", ")", "\n">>    \*   AND A(3)\n
}

\* Statements that fail elsewhere than at the literal.
OtherBadGateLines == {
  <<"a", "n", "d", " ", "a", "(", "2", ")", " ", "b", "(", "3", ")", "\n">>,   \* and a(2) b(3)\n
  <<"a", "n", "d", " ", "a", " ", "2", ")", "\n">>,   \* and a 2)\n
  <<"a", "n", "d", " ", "a", "(", "2">>,   \* and a(2
  <<"a", "n", "d", " ", "(", "2", ")", "\n">>,   \* and (2)\n
  <<"a", "n", "d", " ", "a", "(", "2", ")", ")", "\n">>,   \* and a(2))\n
  <<"x", "o", "r", " ", "a", "(", "2", ")", "\n">>,   \* xor a(2)\n
  <<"x", "o", "r", " ", "a", ",", " ", "b", "(", "2", ")", "\n">>,   \* xor a, b(2)\n
  <<"x", "o", "r", " ", "a", " ", "b", "\n">>,   \* xor a b\n
  <<"x", "o", "r", " ", "1", "\n">>    \* xor 1\n
}

GoodGateLines ==
  {Statement1(<<"a", "n", "d">>, Counted(<<"a">>, l)) : l \in GoodCounts}
    \cup {Statement1(k, Counted(<<"b">>, l)) : k \in CountedKeywords, l \in {<<"1">>, <<"1", "6">>}}
    \cup {Statement2(<<"n", "a", "n", "d">>, Counted(<<"a">>, <<"2">>), Counted(<<"b">>, l)) :
            l \in {<<"1">>, <<"1", "6">>}}
    \cup OtherGoodGateLines

BadGateLines ==
  {Statement1(<<"a", "n", "d">>, Counted(<<"a">>, l)) : l \in BadCounts}
    \cup {Statement1(k, Counted(<<"b">>, l)) : k \in CountedKeywords, l \in {<<"1", "7">>, <<"0">>}}
    \cup {Statement2(<<"n", "a", "n", "d">>, Counted(<<"a">>, <<"2">>), Counted(<<"b">>, l)) :
            l \in {<<"1", "7">>, <<"0">>, <<"a", "b", "c">>}}
    \cup OtherBadGateLines

GateFiles == FilesEnding(GoodGateLines, GoodGateLines \cup BadGateLines)

InitGate ==
  /\ file \in GateFiles
  /\ pc = "loop"
  /\ InitRest

NextGate ==
  \/ loop_EOF
  \/ loop_AND
  \/ loop_NAND
  \/ loop_OR
  \/ loop_NOR
  \/ loop_XOR
  \/ loop_other
  \/ except

SpecGate == InitGate /\ [][NextGate]_vars

----------------------------------------------------------------------------
(* Input files of the switch specification, built in the same way.         *)

\* Literals that _parse_SWITCH accepts.
GoodStates == {
  <<"0">>,   \* 0
  <<"1">>,   \* 1
  <<"0", "0">>,   \* 00
  <<"0", "1">>,   \* 01
  <<"0", "0", "1">>    \* 001
}

\* Literals that it does not accept.
BadStates == {
  <<"2">>,   \* 2
  <<"1", "0">>,   \* 10
  <<"1", "1">>,   \* 11
  <<"a", "b">>,   \* ab
  <<"^2">>,   \* ^2
  <<>>,   \* (empty)
  <<"s", "w">>    \* sw
}

OtherBadSwitchLines == {
  <<"s", "w", " ", "s", "(", "1", "\n">>,   \* sw s(1\n
  <<"s", "w", " ", "s", " ", "1", ")", "\n">>,   \* sw s 1)\n
  <<"s", "w", " ", "(", "1", ")", "\n">>,   \* sw (1)\n
  <<"s", "w", " ", "s", "(", "0", ")", " ", "t", "(", "1", ")", "\n">>    \* sw s(0) t(1)\n
}

GoodSwitchLines ==
  {Statement1(<<"s", "w">>, Counted(<<"s">>, l)) : l \in GoodStates}
    \cup {Statement2(<<"s", "w">>, Counted(<<"s">>, <<"0">>), Counted(<<"t">>, l)) :
            l \in {<<"1">>, <<"0", "1">>}}
    \cup {<<"\n">>}

BadSwitchLines ==
  {Statement1(<<"s", "w">>, Counted(<<"s">>, l)) : l \in BadStates}
    \cup {Statement2(<<"s", "w">>, Counted(<<"s">>, <<"0">>), Counted(<<"t">>, l)) :
            l \in {<<"2">>, <<"^2">>}}
    \cup OtherBadSwitchLines

SwitchFiles == FilesEnding(GoodSwitchLines, GoodSwitchLines \cup BadSwitchLines)

InitSwitch ==
  /\ file \in SwitchFiles
  /\ pc = "loop"
  /\ InitRest

NextSwitch ==
  \/ loop_EOF
  \/ loop_SWITCH
  \/ loop_other
  \/ except

SpecSwitch == InitSwitch /\ [][NextSwitch]_vars

----------------------------------------------------------------------------
(* Input files of the monitor specification: declarations of the devices   *)
(* a, d and e, and monitor statements.                                     *)

\* Lines that parse when the devices they name have been declared.
GoodMonitorLines == {
  <<"d", "t", "y", "p", "e", " ", "d", "\n">>,   \* dtype d\n
  <<"d", "t", "y", "p", "e", " ", "d", ",", " ", "e", "\n">>,   \* dtype d, e\n
  <<"a", "n", "d", " ", "a", "(", "2", ")", "\n">>,   \* and a(2)\n
  <<"\n">>,   \* \n
  <<"m", "o", "n", "i", "t", "o", "r", " ", "d", ".", "q", "\n">>,   \* monitor d.q\n
  <<"m", "o", "n", "i", "t", "o", "r", " ", "a", "\n">>    \* monitor a\n
}

\* Monitor statements that fail, or parse, by what has been declared.
BadMonitorLines == {
  <<"m", "o", "n", "i", "t", "o", "r", " ", "d", "\n">>,   \* monitor d\n
  <<"m", "o", "n", "i", "t", "o", "r", " ", "d", ".", "\n">>,   \* monitor d.\n
  <<"m", "o", "n", "i", "t", "o", "r", " ", "d", ".", "1", "\n">>,   \* monitor d.1\n
  <<"m", "o", "n", "i", "t", "o", "r", " ", "d", " ", "q", "\n">>,   \* monitor d q\n
  <<"m", "o", "n", "i", "t", "o", "r", " ", "d", ".", "q", ",", " ", "d", "\n">>,   \* monitor d.q, d\n
  <<"m", "o", "n", "i", "t", "o", "r", " ", "d", ".", "q", ",", " ", "e", ".", "q", "b", "a", "r", "\n">>,   \* monitor d.q, e.qbar\n
  <<"m", "o", "n", "i", "t", "o", "r", " ", "d", ".", "q", ",", " ", "d", ".", "q", "\n">>,   \* monitor d.q, d.q\n
  <<"m", "o", "n", "i", "t", "o", "r", " ", "d", ".", "d", "a", "t", "a", "\n">>,   \* monitor d.data\n
  <<"m", "o", "n", "i", "t", "o", "r", " ", "d", ".", "q", ".", "x", "\n">>,   \* monitor d.q.x\n
  <<"m", "o", "n", "i", "t", "o", "r", " ", "d", ".", "q", " ", "d", "\n">>,   \* monitor d.q d\n
  <<"m", "o", "n", "i", "t", "o", "r", " ", "a", ".", "q", "\n">>,   \* monitor a.q\n
  <<"m", "o", "n", "i", "t", "o", "r", " ", "a", ",", " ", "a", "\n">>,   \* monitor a, a\n
  <<"m", "o", "n", "i", "t", "o", "r", " ", "a", " ", "a", "\n">>,   \* monitor a a\n
  <<"m", "o", "n", "i", "t", "o", "r", " ", "a", ",", "\n">>,   \* monitor a,\n
  <<"m", "o", "n", "i", "t", "o", "r", " ", "a", "(", "\n">>,   \* monitor a(\n
  <<"m", "o", "n", "i", "t", "o", "r", " ", "1", "\n">>,   \* monitor 1\n
  <<"m", "o", "n", "i", "t", "o", "r", "\n">>,   \* monitor\n
  <<"m", "o", "n", "i", "t", "o", "r", " ", "x", "\n">>,   \* monitor x\n
  <<"m", "o", "n", "i", "t", "o", "r", " ", "d", ".", "q">>    \* monitor d.q
}

MonitorFiles == FilesEnding(GoodMonitorLines, GoodMonitorLines \cup BadMonitorLines)

InitMonitor ==
  /\ file \in MonitorFiles
  /\ pc = "loop"
  /\ InitRest

NextMonitor ==
  \/ loop_EOF
  \/ loop_AND
  \/ loop_DTYPE
  \/ loop_MONITOR
  \/ loop_other
  \/ except

SpecMonitor == InitMonitor /\ [][NextMonitor]_vars

----------------------------------------------------------------------------
(* Input files of the connection specification: a declaration of the gates *)
(* a and b, and connection statements.                                     *)

\* Lines that parse when a and b have been declared.
GoodConnectionLines == {
  <<"a", "n", "d", " ", "a", "(", "1", ")", ",", " ", "b", "(", "1", ")", "\n">>,   \* and a(1), b(1)\n
  <<"\n">>,   \* \n
  <<"a", " ", "=", " ", "b", "\n">>,   \* a = b\n
  <<"a", ".", "i", "1", " ", "=", " ", "b", "\n">>,   \* a.i1 = b\n
  <<"a", " ", "=", " ", "b", ".", "i", "1", "\n">>,   \* a = b.i1\n
  <<"a", ".", "i", "1", " ", "=", " ", "b", ".", "i", "2", "\n">>    \* a.i1 = b.i2\n
}

\* Connection statements that fail.
BadConnectionLines == {
  <<"a", " ", "=", " ", "c", "\n">>,   \* a = c\n
  <<"c", " ", "=", " ", "a", "\n">>,   \* c = a\n
  <<"a", " ", "b", "\n">>,   \* a b\n
  <<"a", "\n">>,   \* a\n
  <<"a", ".", "\n">>,   \* a.\n
  <<"a", ".", "1", " ", "=", " ", "b", "\n">>,   \* a.1 = b\n
  <<"a", ".", "a", "n", "d", " ", "=", " ", "b", "\n">>,   \* a.and = b\n
  <<"a", ".", "i", "1", " ", "b", "\n">>,   \* a.i1 b\n
  <<"a", ".", "i", "1", "\n">>,   \* a.i1\n
  <<"a", ".", "i", "1", ".", "x", " ", "=", " ", "b", "\n">>,   \* a.i1.x = b\n
  <<"a", ".", "i", "1", " ", "=", "\n">>,   \* a.i1 =\n
  <<"a", " ", "=", " ", "1", "\n">>,   \* a = 1\n
  <<"a", " ", "=", "\n">>,   \* a =\n
  <<"a", " ", "=", " ", "b", " ", "c", "\n">>,   \* a = b c\n
  <<"a", " ", "=", " ", "b", ".", "\n">>,   \* a = b.\n
  <<"a", " ", "=", " ", "b", ".", "1", "\n">>,   \* a = b.1\n
  <<"a", " ", "=", " ", "b", ".", "i", "1", " ", "c", "\n">>,   \* a = b.i1 c\n
  <<"a", " ", "=", " ", "b", ".", "i", "1", ".", "x", "\n">>,   \* a = b.i1.x\n
  <<"a", " ", "=", " ", "b", ".", "i", "1", ",", "\n">>,   \* a = b.i1,\n
  <<"a", " ", "=", " ", "b", " ", "=", "\n">>,   \* a = b =\n
  <<"a", " ", "=", " ", "b", ",", " ", "c", "\n">>,   \* a = b, c\n
  <<"a", " ", "=", "=", " ", "b", "\n">>,   \* a == b\n
  <<"a", " ", "(", "b", ")", "\n">>,   \* a (b)\n
  <<"a", ",", " ", "b", "\n">>,   \* a, b\n
  <<"a", " ", "=", " ", "b">>,   \* a = b
  <<"a", ".", "i", "1", " ", "=", " ", "b", ".", "i", "2">>,   \* a.i1 = b.i2
  <<"b", ".", "i", "1", " ", "=", " ", "b", " ", "=", " ", "a", "\n">>    \* b.i1 = b = a\n
}

ConnectionFiles ==
  FilesEnding(GoodConnectionLines, GoodConnectionLines \cup BadConnectionLines)

InitConnection ==
  /\ file \in ConnectionFiles
  /\ pc = "loop"
  /\ InitRest

NextConnection ==
  \/ loop_EOF
  \/ loop_AND
  \/ loop_NAME
  \/ loop_other
  \/ except

SpecConnection == InitConnection /\ [][NextConnection]_vars

----------------------------------------------------------------------------
(* Input files of the statement specification: statements of every keyword *)
(* with one, two or three instances, and the same with a Symbol that is    *)
(* no separator after an instance.                                         *)

\* Statements that parse when the devices they monitor have been declared.
GoodStatementLines == {
  <<"a", "n", "d", " ", "a", "(", "2", ")", ",", " ", "b", "(", "2", ")", "\n">>,   \* and a(2), b(2)\n
  <<"n", "a", "n", "d", " ", "a", "(", "1", ")", "\n">>,   \* nand a(1)\n
  <<"o", "r", " ", "a", "(", "2", ")", ",", " ", "b", "(", "3", ")", ",", " ", "c", "(", "4", ")", "\n">>,   \* or a(2), b(3), c(4)\n
  <<"n", "o", "r", " ", "a", "(", "2", ")", "\n">>,   \* nor a(2)\n
  <<"x", "o", "r", " ", "a", ",", " ", "b", "\n">>,   \* xor a, b\n
  <<"c", "l", "k", " ", "c", "(", "5", ")", ",", " ", "d", "(", "1", ")", "\n">>,   \* clk c(5), d(1)\n
  <<"s", "w", " ", "s", "(", "0", ")", ",", " ", "t", "(", "1", ")", "\n">>,   \* sw s(0), t(1)\n
  <<"d", "t", "y", "p", "e", " ", "d", ",", " ", "e", "\n">>,   \* dtype d, e\n
  <<"m", "o", "n", "i", "t", "o", "r", " ", "a", "\n">>,   \* monitor a\n
  <<"m", "o", "n", "i", "t", "o", "r", " ", "a", ",", " ", "b", "\n">>,   \* monitor a, b\n
  <<"m", "o", "n", "i", "t", "o", "r", " ", "d", ".", "q", ",", " ", "e", ".", "q", "b", "a", "r", "\n">>,   \* monitor d.q, e.qbar\n
  <<"\n">>    \* \n
}

\* Statements with a Symbol that is no separator, or with a separator and
\* no instance.
BadStatementLines == {
  <<"a", "n", "d", " ", "a", "(", "2", ")", " ", "b", "(", "3", ")", "\n">>,   \* and a(2) b(3)\n
  <<"n", "a", "n", "d", " ", "a", "(", "1", ")", ",", "\n">>,   \* nand a(1),\n
  <<"o", "r", " ", "a", "(", "2", ")", ",", " ", "b", "(", "3", ")", " ", "c", "(", "4", ")", "\n">>,   \* or a(2), b(3) c(4)\n
  <<"n", "o", "r", " ", "a", "(", "2", ")", ".", "\n">>,   \* nor a(2).\n
  <<"x", "o", "r", " ", "a", " ", "b", "\n">>,   \* xor a b\n
  <<"x", "o", "r", " ", "a", ",", " ", "b", "(", "\n">>,   \* xor a, b(\n
  <<"c", "l", "k", " ", "c", "(", "5", ")", " ", "d", "(", "1", ")", "\n">>,   \* clk c(5) d(1)\n
  <<"c", "l", "k", " ", "c", "(", "5", ")", ",", " ", "d", "(", "1", ")", " ", "e", "\n">>,   \* clk c(5), d(1) e\n
  <<"c", "l", "k", " ", "c", "(", "5", ")", ",", " ", "5", "\n">>,   \* clk c(5), 5\n
  <<"s", "w", " ", "s", "(", "0", ")", " ", "=", " ", "t", "(", "1", ")", "\n">>,   \* sw s(0) = t(1)\n
  <<"s", "w", " ", "s", "(", "0", ")", ",", " ", "t", "(", "1", ")", ")", "\n">>,   \* sw s(0), t(1))\n
  <<"d", "t", "y", "p", "e", " ", "d", " ", "e", "\n">>,   \* dtype d e\n
  <<"d", "t", "y", "p", "e", " ", "d", ",", " ", "e", " ", "1", "\n">>,   \* dtype d, e 1\n
  <<"d", "t", "y", "p", "e", " ", "d", ",", " ", "d", "t", "y", "p", "e", "\n">>,   \* dtype d, dtype\n
  <<"m", "o", "n", "i", "t", "o", "r", " ", "a", " ", "b", "\n">>,   \* monitor a b\n
  <<"m", "o", "n", "i", "t", "o", "r", " ", "a", ",", " ", "b", " ", "c", "\n">>,   \* monitor a, b c\n
  <<"m", "o", "n", "i", "t", "o", "r", " ", "d", ".", "q", " ", "e", "\n">>,   \* monitor d.q e\n
  <<"m", "o", "n", "i", "t", "o", "r", " ", "d", ".", "q", ",", " ", "e", ".", "q", ",", "\n">>,   \* monitor d.q, e.q,\n
  <<"a", "n", "d", " ", "a", "(", "2", ")", ",", " ", "a", "n", "d", " ", "b", "(", "2", ")", "\n">>,   \* and a(2), and b(2)\n
  <<"a", "n", "d", " ", "a", "(", "2", ")", ",", " ", "b", "(", "2", ")">>    \* and a(2), b(2)
}

StatementFiles ==
  FilesEnding(GoodStatementLines, GoodStatementLines \cup BadStatementLines)

InitStatement ==
  /\ file \in StatementFiles
  /\ pc = "loop"
  /\ InitRest

NextStatement ==
  \/ loop_EOF
  \/ loop_AND
  \/ loop_NAND
  \/ loop_OR
  \/ loop_NOR
  \/ loop_XOR
  \/ loop_CLOCK
  \/ loop_DTYPE
  \/ loop_SWITCH
  \/ loop_MONITOR
  \/ loop_other
  \/ except

SpecStatement == InitStatement /\ [][NextStatement]_vars

----------------------------------------------------------------------------
(* Input files of the clock specification, built in the same way.          *)

\* Literals that _parse_CLOCK accepts.
GoodPeriods == {
  <<"1">>,   \* 1
  <<"5">>,   \* 5
  <<"1", "6">>,   \* 16
  <<"1", "7">>,   \* 17
  <<"1", "0", "0">>,   \* 100
  <<"6", "5", "5", "3", "6">>    \* 65536
}

\* Literals that it does not accept.
BadPeriods == {
  <<"0">>,   \* 0
  <<"0", "0">>,   \* 00
  <<"0", "1">>,   \* 01
  <<"0", "1", "0">>,   \* 010
  <<"a", "b">>,   \* ab
  <<"1", "a">>,   \* 1a
  <<"^2">>,   \* ^2
  <<"1", "^2">>,   \* 1^2
  <<>>,   \* (empty)
  <<"c", "l", "k">>    \* clk
}

OtherBadClockLines == {
  <<"c", "l", "k", " ", "c", "(", "5", "\n">>,   \* clk c(5\n
  <<"c", "l", "k", " ", "c", " ", "5", ")", "\n">>,   \* clk c 5)\n
  <<"c", "l", "k", " ", "(", "5", ")", "\n">>,   \* clk (5)\n
  <<"c", "l", "k", " ", "c", "(", "5", ")", " ", "d", "(", "1", ")", "\n">>,   \* clk c(5) d(1)\n
  <<"c", "l", "k", " ", "c", "(", "5">>    \* clk c(5
}

GoodClockLines ==
  {Statement1(<<"c", "l", "k">>, Counted(<<"c">>, l)) : l \in GoodPeriods}
    \cup {Statement2(<<"c", "l", "k">>, Counted(<<"c">>, <<"5">>), Counted(<<"d">>, l)) :
            l \in {<<"1">>, <<"1", "7">>}}
    \cup {<<"\n">>}

BadClockLines ==
  {Statement1(<<"c", "l", "k">>, Counted(<<"c">>, l)) : l \in BadPeriods}
    \cup {Statement2(<<"c", "l", "k">>, Counted(<<"c">>, <<"5">>), Counted(<<"d">>, l)) :
            l \in {<<"0">>, <<"0", "1">>, <<"^2">>}}
    \cup OtherBadClockLines

ClockFiles == FilesEnding(GoodClockLines, GoodClockLines \cup BadClockLines)

InitClock ==
  /\ file \in ClockFiles
  /\ pc = "loop"
  /\ InitRest

NextClock ==
  \/ loop_EOF
  \/ loop_CLOCK
  \/ loop_other
  \/ except

SpecClock == InitClock /\ [][NextClock]_vars

----------------------------------------------------------------------------
(* Helpers of the properties of the symbol stream.                         *)

\* The number of Symbols of type t among the first n yielded.
RECURSIVE CountType(_, _)
CountType(t, n) ==
  IF n = 0 THEN 0
  ELSE CountType(t, n - 1) + (IF yielded[n].type = t THEN 1 ELSE 0)

\* The 1-based number of the line the k-th yielded Symbol was read from.
SymLine(k) == CountType(EOL, k - 1) + 1

\* The total number of characters of the file.
RECURSIVE FileLen(_)
FileLen(f) == IF f = <<>> THEN 0 ELSE Len(Head(f)) + FileLen(Tail(f))

\* A line of white space only.
IsBlank(line) == \A i \in 1..Len(line) : line[i] \in {" ", "\t", "\n"}

\* The Symbols yielded for line i are only its EOL.
OnlyEOL(i) ==
  \A k \in 1..Len(yielded) :
    SymLine(k) = i => yielded[k].type \in {EOL, EOF}

----------------------------------------------------------------------------
(* Helpers of the properties of the parser.                                *)

Keywords == {AND, OR, NAND, NOR, XOR, CLOCK, SWITCH, DTYPE, MONITOR}

CountedGates == {AND, OR, NAND, NOR}

\* Devices' name of the kind of gate a keyword declares.
KindName(type) ==
  CASE type = AND -> "AND"
    [] type = OR -> "OR"
    [] type = NAND -> "NAND"
    [] type = NOR -> "NOR"
    [] type = XOR -> "XOR"

\* The largest element of a non-empty set of integers.
Max(S) == CHOOSE x \in S : \A y \in S : y <= x

\* The index in stream t of the keyword of the statement that the k-th
\* Symbol belongs to (0 when no keyword precedes it).
KeywordIndex(t, k) ==
  LET S == {j \in 1..(k - 1) : t[j].type \in Keywords}
  IN IF S = {} THEN 0 ELSE Max(S)

\* The type of that keyword (-1 when there is none).
StmtType(t, k) ==
  IF KeywordIndex(t, k) = 0 THEN -1 ELSE t[KeywordIndex(t, k)].type

\* The k-th Symbol of t stands where a statement of one of the given types
\* has the identifier of an instance: after the keyword or after a comma.
IsInstanceName(t, k, types) ==
  /\ k >= 2
  /\ StmtType(t, k) \in types
  /\ \/ KeywordIndex(t, k) = k - 1
     \/ t[k - 1].type = COMMA

\* The k-th Symbol of t stands between the brackets of such an instance.
IsLiteral(t, k, types) ==
  /\ k >= 4
  /\ t[k - 1].type = OPEN
  /\ t[k - 2].type = NAME
  /\ IsInstanceName(t, k - 2, types)

\* A decimal literal without leading zero.
IsCount(sym) ==
  /\ sym.type = NUMBER
  /\ ~int_raises(sym.id)
  /\ sym.id[1] # "0"

\* No builder call was made for the instance whose literal is the k-th
\* Symbol fetched: every call was made before its identifier was fetched.
NoCallFor(k) == \A i \in 1..Len(calls) : calls[i].at < k - 2

\* The parse stopped at the k-th Symbol fetched with the ParsingError of
\* this message, located at that Symbol.
RejectedAt(k, message) ==
  /\ k = Len(yielded)
  /\ pc \in {"error", "done"}
  /\ err = ParsingError(message, yielded[k])

\* The parse went on after the k-th Symbol fetched.
PassedAt(k) == Len(yielded) > k

\* The whole symbol stream of file f.
RECURSIVE SymbolsFrom(_, _)
SymbolsFrom(f, g) ==
  LET r == gen_next(f, g)
  IN IF r.stop THEN <<>> ELSE <<r.sym>> \o SymbolsFrom(f, r.gen)

AllSymbols == SymbolsFrom(file, GenInit)

\* A count literal of a well-formed gate instance: 1..16, no leading zero.
GoodCount(sym) == IsCount(sym) /\ int(sym.id) \in 1..16

\* The stream t holds, from index i on, well-formed gate statements only.
RECURSIVE WellFormedGates(_, _)
RECURSIVE WellFormedInstances(_, _, _)
WellFormedGates(t, i) ==
  IF i > Len(t) THEN FALSE
  ELSE IF t[i].type = EOF THEN TRUE
  ELSE IF t[i].type \in CountedGates \cup {XOR} THEN WellFormedInstances(t, i + 1, t[i].type)
  ELSE FALSE

\* An instance at index i, then a comma and more instances, or the EOL.
WellFormedInstances(t, i, type) ==
  LET j == IF type = XOR THEN i + 1 ELSE i + 4 IN
  /\ j <= Len(t)
  /\ t[i].type = NAME
  /\ type # XOR =>
       /\ t[i + 1].type = OPEN
       /\ GoodCount(t[i + 2])
       /\ t[i + 3].type = CLOSE
  /\ IF t[j].type = COMMA THEN WellFormedInstances(t, j + 1, type)
     ELSE IF t[j].type = EOL THEN WellFormedGates(t, j + 1)
     ELSE FALSE

\* The gates that the NAME Symbols of t from index i on declare, in order.
RECURSIVE DeclaredGates(_, _)
DeclaredGates(t, i) ==
  IF i > Len(t) THEN <<>>
  ELSE IF t[i].type # NAME THEN DeclaredGates(t, i + 1)
  ELSE <<[device_kind |-> KindName(StmtType(t, i)),
          device_id |-> t[i].id,
          no_of_inputs |-> IF StmtType(t, i) = XOR THEN 2 ELSE int(t[i + 2].id)]>>
         \o DeclaredGates(t, IF StmtType(t, i) = XOR THEN i + 1 ELSE i + 3)

\* The make_gate calls made, without the position they were made at.
GateCalls ==
  [i \in 1..Len(calls) |->
     IF calls[i].fn = "make_gate"
       THEN [device_kind |-> calls[i].device_kind,
             device_id |-> calls[i].device_id,
             no_of_inputs |-> calls[i].no_of_inputs]
       ELSE [fn |-> calls[i].fn]]

----------------------------------------------------------------------------
(* The claims.                                                             *)

\* C1: when the file consists of well-formed gate statements only,
\* parse_network returns True and the builder calls are exactly the
\* make_gate calls of the declared instances, in source order, with the
\* declared kind, identifier and number of inputs.
C1_WellFormedGates ==
  (pc = "done" /\ WellFormedGates(AllSymbols, 1)) =>
    /\ result = "True"
    /\ GateCalls = DeclaredGates(AllSymbols, 1)

\* Two well-formed lines declaring at least three gates have been parsed.
C1_Witness ==
  /\ pc = "done"
  /\ WellFormedGates(AllSymbols, 1)
  /\ Len(file) = 2
  /\ Len(calls) >= 3
  /\ \E i \in 1..Len(calls) : calls[i].device_kind = "XOR"
  /\ \E i \in 1..Len(calls) : calls[i].device_kind # "XOR" /\ calls[i].no_of_inputs = 16

\* C2: once a ParsingError has been raised no builder is called and no
\* Symbol is fetched any more, the result is False, and no call was made
\* for the instance in which the check failed.
C2_AbortOnFirstError ==
  /\ [][pc = "error" =>
         /\ calls' = calls
         /\ yielded' = yielded
         /\ gen' = gen
         /\ result' = "False"]_vars
  /\ [](err.exc = "ParsingError" =>
         \A i \in 1..Len(calls) :
           calls[i].at < Len(yielded) \/ calls[i].fn \in {"make_monitor", "make_connection"})

\* C3: parse_network ends by returning True, when no check failed, or by
\* returning False after printing the message, an empty line and the line
\* number with the text of that line; it never ends by raising.
C3_ReturnsBoolean ==
  pc = "done" =>
    \/ /\ result = "True"
       /\ err = NoExc
       /\ out = [message |-> "", lines |-> <<>>]
    \/ /\ result = "False"
       /\ err.exc = "ParsingError"
       /\ out.message = err.message
       /\ Len(out.lines) >= 2
       /\ out.lines[2] = str(line_count) \o <<" ", " ">> \o Strip(file[line_count])

\* C4: a monitor instance whose identifier names no declared device fails
\* with "Undeclared device", the error being located at that identifier.
C4_UndeclaredAtSymbol ==
  LET k == Len(yielded) IN
  (/\ pc \in {"error", "done"}
   /\ k >= 2
   /\ yielded[k].type = NAME
   /\ IsInstanceName(yielded, k, {MONITOR})
   /\ ~Declared(calls, yielded[k].id))
    => err = ParsingError("Undeclared device", yielded[k])

\* C5: when the diagnostic of an error that carries a Symbol (other than an
\* EOL) has been printed, the caret stands in the column at which the
\* displayed line has the text of that Symbol.
C5_CaretUnderSymbol ==
  (/\ pc = "done"
   /\ result = "False"
   /\ err.sym # NoSym
   /\ err.sym.type # EOL)
    => LET shown == out.lines[2]
           col == Len(out.lines[3])
       IN /\ out.lines[3][col] = "^"
          /\ col + Len(err.sym.id) - 1 <= Len(shown)
          /\ Lower(SubSeq(shown, col, col + Len(err.sym.id) - 1)) = get_name_string(err.sym.id)

\* C6: the symbol stream is finite (never longer than the file's characters
\* plus one EOL per line plus the EOF), and once the generator is exhausted
\* it holds exactly one EOL per physical line, no other symbol for a blank
\* line, and exactly one EOF, which is last and follows the last line's EOL.
C6_StreamShape ==
  /\ Len(yielded) <= FileLen(file) + Len(file) + 1
  /\ CountType(EOF, Len(yielded)) <= 1
  /\ CountType(EOL, Len(yielded)) <= Len(file)
  /\ \A k \in 1..Len(yielded) : yielded[k].type = EOF => k = Len(yielded)
  /\ \A i \in 1..Len(file) : IsBlank(file[i]) => OnlyEOL(i)
  /\ pc = "done" =>
       /\ CountType(EOF, Len(yielded)) = 1
       /\ CountType(EOL, Len(yielded)) = Len(file)
       /\ yielded[Len(yielded)].type = EOF
       /\ Len(file) >= 1 => yielded[Len(yielded) - 1].type = EOL

\* A two-line file, one line blank and one not, scanned to exhaustion.
C6_Witness ==
  /\ pc = "done"
  /\ Len(file) = 2
  /\ IsBlank(file[1])
  /\ ~IsBlank(file[2])
  /\ Len(yielded) >= 4

\* The k-th yielded Symbol lies at its loc in its line: the characters of
\* the line from offset loc on, lower-cased, are the classified text.
TextAtLoc(k) ==
  LET sym == yielded[k]
      line == file[SymLine(k)]
  IN /\ sym.loc >= 0
     /\ sym.loc + Len(sym.id) <= Len(line)
     /\ Lower(SubSeq(line, sym.loc + 1, sym.loc + Len(sym.id))) = get_name_string(sym.id)

\* C7: every Symbol other than EOL and EOF has loc equal to the offset, in
\* its line, of the first character of its text, and the EOL of a line has
\* loc equal to the length of the line.
C7_LocIsOffset ==
  \A k \in 1..Len(yielded) :
    CASE yielded[k].type = EOF -> TRUE
      [] yielded[k].type = EOL -> yielded[k].loc = Len(file[SymLine(k)])
      [] OTHER -> TextAtLoc(k)

\* C8: the Symbol between the brackets of an AND, OR, NAND or NOR instance
\* is accepted exactly when it is a decimal NUMBER without leading zero of
\* value 1..16, and make_gate then gets that value; a Symbol that is no
\* NUMBER or starts with "0" fails with "Expecting a number > 0" and a
\* decimal NUMBER above 16 with "Expecting a number from 1-16", both
\* located at the Symbol; no make_gate call is made for a Symbol that is not
\* accepted.
C8_GateCount ==
  \A k \in 1..Len(yielded) :
    IsLiteral(yielded, k, CountedGates) =>
      LET sym == yielded[k] IN
      IF sym.type # NUMBER \/ sym.id[1] = "0"
        THEN RejectedAt(k, "Expecting a number > 0") /\ NoCallFor(k)
      ELSE IF ~IsCount(sym) THEN NoCallFor(k)
      ELSE IF int(sym.id) > 16
        THEN RejectedAt(k, "Expecting a number from 1-16") /\ NoCallFor(k)
      ELSE /\ PassedAt(k)
           /\ yielded[k + 1].type = CLOSE =>
                \E i \in 1..Len(calls) :
                  calls[i] = [fn |-> "make_gate",
                              device_kind |-> KindName(StmtType(yielded, k)),
                              device_id |-> yielded[k - 2].id,
                              no_of_inputs |-> int(sym.id),
                              at |-> k + 1]

\* The second instance of a statement was rejected for a count above 16
\* after the first one was made.
C8_Witness ==
  /\ pc = "done"
  /\ Len(calls) = 1
  /\ IsLiteral(yielded, Len(yielded), CountedGates)
  /\ err.message = "Expecting a number from 1-16"
  /\ yielded[Len(yielded)].id = <<"1", "7">>

\* A NUMBER of integer value 0 or 1.
IsState(sym) == sym.type = NUMBER /\ ~int_raises(sym.id) /\ int(sym.id) \in {0, 1}

\* C9: the Symbol between the brackets of a SWITCH instance is accepted
\* exactly when it is a NUMBER of integer value 0 or 1, and make_switch then
\* gets that value as initial_state; any other Symbol fails with
\* "Expecting 0 or 1" located at it, and no make_switch call is made.
C9_SwitchState ==
  \A k \in 1..Len(yielded) :
    IsLiteral(yielded, k, {SWITCH}) =>
      IF IsState(yielded[k])
        THEN /\ PassedAt(k)
             /\ yielded[k + 1].type = CLOSE =>
                  \E i \in 1..Len(calls) :
                    calls[i] = [fn |-> "make_switch",
                                device_id |-> yielded[k - 2].id,
                                initial_state |-> int(yielded[k].id),
                                at |-> k + 1]
        ELSE RejectedAt(k, "Expecting 0 or 1") /\ NoCallFor(k)

\* The indices of the identifiers of the XOR instances fetched so far.
XorNames ==
  {k \in 1..Len(yielded) : yielded[k].type = NAME /\ IsInstanceName(yielded, k, {XOR})}

XorCalls ==
  {i \in 1..Len(calls) : calls[i].fn = "make_gate" /\ calls[i].device_kind = "XOR"}

\* C10: every XOR instance is forwarded to make_gate with no_of_inputs = 2
\* as soon as its identifier has been fetched, one call for each identifier
\* of the list, and an open bracket after the identifier fails with
\* "Expecting ','" located at the bracket.
C10_XorGates ==
  /\ \A i \in XorCalls :
       /\ calls[i].no_of_inputs = 2
       /\ calls[i].at \in XorNames
       /\ calls[i].device_id = yielded[calls[i].at].id
  /\ \A k \in XorNames : \E i \in XorCalls : calls[i].at = k
  /\ Cardinality(XorCalls) = Cardinality(XorNames)
  /\ \A k \in XorNames :
       (Len(yielded) > k /\ yielded[k + 1].type = OPEN) => RejectedAt(k + 1, "Expecting ','")

\* Two XOR gates were made and the bracket after the second was rejected.
C10_Witness ==
  /\ pc = "done"
  /\ Cardinality(XorCalls) = 2
  /\ Len(calls) = 2
  /\ err = ParsingError("Expecting ','", yielded[Len(yielded)])
  /\ yielded[Len(yielded)].type = OPEN

CallsBefore(k) ==
  LET Earlier(call) == call.at < k IN SelectSeq(calls, Earlier)

\* What the device registry reports for the identifier fetched as k-th
\* Symbol, at the time it was fetched.
KindAt(k) == get_device(CallsBefore(k), yielded[k].id)

\* make_monitor was called with this device and output when exactly n
\* Symbols had been fetched.
MonitorCall(device_id, output_id, n) ==
  \E i \in 1..Len(calls) :
    /\ calls[i].fn = "make_monitor"
    /\ calls[i].device_id = device_id
    /\ calls[i].output_id = output_id
    /\ calls[i].at = n

\* C12: for the identifier of a monitor instance that the registry reports
\* as a D-type, a following Symbol other than '.' is rejected with
\* "Expecting '.'" and no make_monitor call is made, while with '.' and a
\* port name make_monitor gets (device, port); for a declared device of
\* another kind make_monitor gets (device, None) at once, and a '.' fetched
\* after it is rejected with "Expecting ','".
C12_PortIffDtype ==
  \A k \in 1..Len(yielded) :
    (yielded[k].type = NAME /\ IsInstanceName(yielded, k, {MONITOR})) =>
      IF KindAt(k) = "D_TYPE"
        THEN /\ Len(yielded) > k
             /\ yielded[k + 1].type # DOT =>
                  /\ RejectedAt(k + 1, "Expecting '.'")
                  /\ \A i \in 1..Len(calls) : calls[i].at < k
             /\ (yielded[k + 1].type = DOT /\ Len(yielded) > k + 1 /\ yielded[k + 2].type = NAME) =>
                  MonitorCall(yielded[k].id, yielded[k + 2].id, k + 2)
        ELSE IF KindAt(k) # "None"
          THEN /\ MonitorCall(yielded[k].id, None, k)
               /\ (Len(yielded) > k /\ yielded[k + 1].type = DOT) =>
                    RejectedAt(k + 1, "Expecting ','")
        ELSE TRUE

\* A monitor of the output of a D-type was made, and the next instance,
\* the D-type without a port, was rejected.
C12_Witness ==
  /\ pc = "done"
  /\ err.message = "Expecting '.'"
  /\ \E i \in 1..Len(calls) :
       /\ calls[i].fn = "make_monitor"
       /\ calls[i].output_id = <<"q">>
       /\ KindAt(calls[i].at - 2) = "D_TYPE"

\* The type of the i-th Symbol of the stream t (-1 beyond its end).
TypeAt(t, i) == IF i \in 1..Len(t) THEN t[i].type ELSE -1

\* The k-th Symbol of t is a NAME that starts a line.
LineStartName(t, k) ==
  /\ TypeAt(t, k) = NAME
  /\ k = 1 \/ TypeAt(t, k - 1) = EOL

\* The index of the Symbol that follows the optional '.' NAME after the
\* NAME at index k.
AfterPort(t, k) ==
  IF TypeAt(t, k + 1) = DOT /\ TypeAt(t, k + 2) = NAME THEN k + 3 ELSE k + 1

\* The identifier of the optional port after the NAME at index k.
PortOf(t, k) == IF AfterPort(t, k) = k + 3 THEN t[k + 2].id ELSE None

\* The Symbols of t from index k on are NAME ['.' NAME] '=' NAME ['.' NAME] EOL.
IsConnection(t, k) ==
  /\ TypeAt(t, k) = NAME
  /\ TypeAt(t, AfterPort(t, k)) = EQUALS
  /\ TypeAt(t, AfterPort(t, k) + 1) = NAME
  /\ TypeAt(t, AfterPort(t, AfterPort(t, k) + 1)) = EOL

\* The index of the EOL of such a statement, and its four arguments.
ConnectionEnd(t, k) == AfterPort(t, AfterPort(t, k) + 1)

ConnectionArgs(t, k) ==
  <<t[k].id, PortOf(t, k), t[AfterPort(t, k) + 1].id, PortOf(t, AfterPort(t, k) + 1)>>

\* The index in t of the EOL of the line of the k-th Symbol.
RECURSIVE LineEnd(_, _)
LineEnd(t, k) == IF k >= Len(t) \/ t[k].type = EOL THEN k ELSE LineEnd(t, k + 1)

\* The make_connection calls made while the Symbols k..n were the last fetched.
ConnectionCalls(k, n) ==
  {i \in 1..Len(calls) : calls[i].fn = "make_connection" /\ calls[i].at \in k..n}

\* C13: for a fetched NAME that starts a line, make_connection is called
\* for the line exactly when the Symbols of the line are
\* NAME ['.' NAME] '=' NAME ['.' NAME] EOL, and then once, when the EOL has
\* been fetched, with (first device, first port or None, second device,
\* second port or None); when the status it returns is not NO_ERROR the
\* parse stops there with "Network error" and no Symbol.
C13_Connection ==
  \A k \in 1..Len(yielded) :
    LineStartName(yielded, k) =>
      IF IsConnection(AllSymbols, k)
        THEN /\ Cardinality(ConnectionCalls(k, LineEnd(AllSymbols, k))) = 1
             /\ \A i \in ConnectionCalls(k, LineEnd(AllSymbols, k)) :
                  /\ calls[i].at = ConnectionEnd(AllSymbols, k)
                  /\ yielded[calls[i].at].type = EOL
                  /\ calls[i].args = ConnectionArgs(AllSymbols, k)
                  /\ calls[i].status # "NO_ERROR" =>
                       /\ pc \in {"error", "done"}
                       /\ err = ParsingError("Network error", NoSym)
                       /\ Len(yielded) = calls[i].at
                       /\ i = Len(calls)
                  /\ calls[i].status = "NO_ERROR" =>
                       (pc = "loop" \/ Len(yielded) > calls[i].at)
        ELSE ConnectionCalls(k, LineEnd(AllSymbols, k)) = {}

\* A connection of two ports was made between declared devices and the
\* parse returned True.
C13_Witness ==
  /\ pc = "done"
  /\ result = "True"
  /\ \E i \in 1..Len(calls) :
       /\ calls[i].fn = "make_connection"
       /\ calls[i].status = "NO_ERROR"
       /\ calls[i].args = << <<"a">>, <<"i", "1">>, <<"b">>, <<"i", "2">> >>

\* No make_connection call was made for the line whose first Symbol is the
\* k-th, and the parse stopped at the n-th Symbol with this message.
ConnectionRejected(k, n, message) ==
  /\ RejectedAt(n, message)
  /\ ConnectionCalls(k, Len(yielded)) = {}

\* C14: in the statement of a fetched NAME that starts a line, the first
\* Symbol that does not fit is rejected with the message of its position,
\* located at it, and no make_connection call is made: "Expecting . or ="
\* after the first device, "Expecting port name" after its '.',
\* "Expecting '='" after the first port, "Expecting '.'" after a bare
\* second device and "Expecting EOL" after the second port.
C14_ConnectionErrors ==
  \A k \in 1..Len(yielded) :
    LineStartName(yielded, k) =>
      LET t == AllSymbols
          e == AfterPort(t, k)
      IN /\ TypeAt(t, k + 1) \notin {DOT, EQUALS} =>
              ConnectionRejected(k, k + 1, "Expecting . or =")
         /\ (TypeAt(t, k + 1) = DOT /\ TypeAt(t, k + 2) # NAME) =>
              ConnectionRejected(k, k + 2, "Expecting port name")
         /\ (e = k + 3 /\ TypeAt(t, e) # EQUALS) =>
              ConnectionRejected(k, e, "Expecting '='")
         /\ (TypeAt(t, e) = EQUALS /\ TypeAt(t, e + 1) = NAME) =>
              /\ TypeAt(t, e + 2) \notin {EOL, DOT} =>
                   ConnectionRejected(k, e + 2, "Expecting '.'")
              /\ (AfterPort(t, e + 1) = e + 4 /\ TypeAt(t, e + 4) # EOL) =>
                   ConnectionRejected(k, e + 4, "Expecting EOL")

\* A statement was rejected at the Symbol after its second port.
C14_Witness ==
  /\ pc = "done"
  /\ result = "False"
  /\ err.message = "Expecting EOL"
  /\ err.sym = yielded[Len(yielded)]
  /\ Len(file) = 2
  /\ Len(calls) = 2

\* The builder calls that end an instance of a keyword statement parsed
\* with success.
InstanceCalls ==
  {i \in 1..Len(calls) :
     \/ calls[i].fn \in DeviceCalls
     \/ calls[i].fn = "make_monitor" /\ calls[i].status = "NO_ERROR"}

\* The Symbol after the instance of call i decides as multiple says.
SeparatorDecides(i) ==
  LET n == calls[i].at + 1 IN
  /\ Len(yielded) >= n
  /\ yielded[n].type # EOF
  /\ yielded[n].type = COMMA =>
       /\ Len(yielded) > n
       /\ yielded[n + 1].type # NAME => RejectedAt(n + 1, "Expecting user-defined name")
       /\ yielded[n + 1].type = NAME => err.sym # yielded[n]
  /\ yielded[n].type = EOL =>
       /\ err.exc = "ParsingError" => Len(yielded) > n
       /\ \A j \in InstanceCalls : calls[j].at > n => SymLine(calls[j].at) > SymLine(n)
  /\ yielded[n].type \notin {COMMA, EOL} => RejectedAt(n, "Expecting ','")

\* A step of the loop that fetches a statement keyword and returns
\* normally fetches the Symbols up to the first EOL and no more.
StatementConsumesLine ==
  (/\ pc = "loop"
   /\ pc' = "loop"
   /\ Len(yielded') > Len(yielded)
   /\ yielded'[Len(yielded) + 1].type \in Keywords)
    => /\ yielded'[Len(yielded')].type = EOL
       /\ \A j \in (Len(yielded) + 1)..(Len(yielded') - 1) : yielded'[j].type # EOL
       /\ \E i \in InstanceCalls' : calls'[i].at = Len(yielded') - 1

\* C15: after every instance of a gate, clock, switch, dtype or monitor
\* statement parsed with success, the next Symbol is fetched and decides:
\* after a COMMA another instance is parsed, an EOL ends the statement (what
\* follows belongs to a later line), and any other Symbol, never an EOF, is
\* rejected with "Expecting ','" located at it; a statement that returns
\* normally has fetched the Symbols of its line up to its EOL and no more.
C15_Separator ==
  /\ [](\A i \in InstanceCalls : SeparatorDecides(i))
  /\ [][StatementConsumesLine]_vars

\* Two clocks were made and the Symbol after the second was rejected.
C15_Witness ==
  /\ pc = "done"
  /\ Len(calls) = 2
  /\ calls[2].fn = "make_clock"
  /\ yielded[calls[1].at + 1].type = COMMA
  /\ RejectedAt(calls[2].at + 1, "Expecting ','")
  /\ yielded[Len(yielded)].type = NAME

\* C16: whenever a ParsingError has been raised, line_count is the number
\* of the line of the Symbol fetched last, the one being parsed, and the
\* diagnostic printed shows that number with the text of that line.
C16_LineCount ==
  /\ pc = "error" => line_count = SymLine(Len(yielded))
  /\ (pc = "done" /\ err.exc = "ParsingError") =>
       /\ result = "False"
       /\ out.lines[2] = print2(str(SymLine(Len(yielded))) \o <<" ">>,
                                Strip(file[SymLine(Len(yielded))]))

\* The integer value of a NUMBER (-1 when int() refuses its text).
ValueOf(sym) == IF int_raises(sym.id) THEN -1 ELSE int(sym.id)

\* C17: the Symbol between the brackets of a CLOCK instance is accepted
\* exactly when it is a NUMBER whose text does not start with "0", and
\* make_clock then gets its integer value, however large, as
\* clock_half_period; any other Symbol fails with "Expecting a number > 0"
\* located at it, and no make_clock call is made.
C17_ClockPeriod ==
  \A k \in 1..Len(yielded) :
    IsLiteral(yielded, k, {CLOCK}) =>
      IF yielded[k].type = NUMBER /\ yielded[k].id[1] # "0"
        THEN /\ PassedAt(k)
             /\ yielded[k + 1].type = CLOSE =>
                  \E i \in 1..Len(calls) :
                    calls[i] = [fn |-> "make_clock",
                                device_id |-> yielded[k - 2].id,
                                clock_half_period |-> ValueOf(yielded[k]),
                                at |-> k + 1]
        ELSE RejectedAt(k, "Expecting a number > 0") /\ NoCallFor(k)

\* The types of the Symbols that no branch of the loop matches.
Ignored == {DOT, COMMA, OPEN, CLOSE, EQUALS, NUMBER, EOL}

\* C18: when the Symbol the top-level loop fetches is a DOT, COMMA, OPEN,
\* CLOSE, EQUALS, NUMBER or EOL, the step fetches that one Symbol, makes no
\* builder call, raises nothing and prints nothing, stays in the loop, and
\* adds one to line_count.
C18_IgnoredSymbol ==
  [][(pc = "loop" /\ gen_next(file, gen).sym.type \in Ignored) =>
       /\ yielded' = Append(yielded, gen_next(file, gen).sym)
       /\ gen' = gen_next(file, gen).gen
       /\ line_count' = line_count + 1
       /\ pc' = "loop"
       /\ UNCHANGED <<file, calls, err, result, out, previous>>]_vars

\* A line of five ignored Symbols and its EOL have been passed over.
C18_Witness ==
  /\ pc = "loop"
  /\ Len(yielded) = 6
  /\ \A k \in 1..6 : yielded[k].type = <<DOT, COMMA, OPEN, EQUALS, NUMBER, EOL>>[k]
  /\ line_count = 7
  /\ calls = <<>>
  /\ err = NoExc

\* C19: the EOF is fetched by the top-level loop only, which then stops
\* and returns True: once it has been fetched it is the last Symbol fetched,
\* no statement has failed on it, and next() is never called on the
\* exhausted generator (the only StopIteration is that of get_line in the
\* except clause).
C19_NothingAfterEOF ==
  /\ \A k \in 1..Len(yielded) :
       yielded[k].type = EOF =>
         /\ k = Len(yielded)
         /\ pc = "done"
         /\ result = "True"
         /\ err = NoExc
  /\ gen.eof => (Len(yielded) >= 1 /\ yielded[Len(yielded)].type = EOF)
  /\ err.sym.type # EOF
  /\ result = "StopIteration" => err.exc = "ParsingError"

\* The EOF was fetched after two lines of statements.
C19_Witness ==
  /\ pc = "done"
  /\ gen.eof
  /\ yielded[Len(yielded)].type = EOF
  /\ Len(file) = 2
  /\ Len(calls) >= 3

\* The k-th Symbol fetched is the identifier of an instance of a keyword
\* statement: a NAME after the keyword or after a comma, in the keyword's
\* line.
InstanceAt(k) ==
  /\ yielded[k].type = NAME
  /\ IsInstanceName(yielded, k, Keywords)
  /\ SymLine(KeywordIndex(yielded, k)) = SymLine(k)

\* The literal a CLOCK, a SWITCH or a gate with a count accepts.
GoodLiteral(type, sym) ==
  CASE type = CLOCK -> sym.type = NUMBER /\ ~int_raises(sym.id) /\ sym.id[1] # "0"
    [] type = SWITCH -> IsState(sym)
    [] OTHER -> GoodCount(sym)

\* The index of the last Symbol of the instance whose identifier is the
\* k-th Symbol, when that instance is complete and valid, and 0 otherwise.
InstanceEnd(k) ==
  LET type == StmtType(yielded, k) IN
  IF type \in {XOR, DTYPE} THEN k
  ELSE IF type = MONITOR
    THEN IF KindAt(k) = "None" THEN 0
         ELSE IF KindAt(k) # "D_TYPE" THEN k
         ELSE IF TypeAt(yielded, k + 1) = DOT /\ TypeAt(yielded, k + 2) = NAME THEN k + 2
         ELSE 0
  ELSE IF /\ TypeAt(yielded, k + 1) = OPEN
          /\ TypeAt(yielded, k + 3) = CLOSE
          /\ GoodLiteral(type, yielded[k + 2])
    THEN k + 3
  ELSE 0

\* The builder and the arguments of call i are those of the instance whose
\* identifier is the k-th Symbol.
CallOf(i, k) ==
  LET type == StmtType(yielded, k)
      call == calls[i]
  IN /\ call.device_id = yielded[k].id
     /\ CASE type \in CountedGates ->
               /\ call.fn = "make_gate"
               /\ call.device_kind = KindName(type)
               /\ call.no_of_inputs = int(yielded[k + 2].id)
          [] type = XOR ->
               /\ call.fn = "make_gate"
               /\ call.device_kind = "XOR"
               /\ call.no_of_inputs = 2
          [] type = CLOCK ->
               /\ call.fn = "make_clock"
               /\ call.clock_half_period = int(yielded[k + 2].id)
          [] type = SWITCH ->
               /\ call.fn = "make_switch"
               /\ call.initial_state = int(yielded[k + 2].id)
          [] type = DTYPE -> call.fn = "make_dtype"
          [] type = MONITOR ->
               /\ call.fn = "make_monitor"
               /\ call.output_id = IF InstanceEnd(k) = k THEN None ELSE yielded[k + 2].id

\* The identifiers of the complete and valid instances fetched so far.
CompleteInstances == {k \in 1..Len(yielded) : InstanceAt(k) /\ InstanceEnd(k) # 0}

\* The connection statements fetched so far up to their EOL.
CompleteConnections ==
  {k \in 1..Len(yielded) : LineStartName(yielded, k) /\ IsConnection(yielded, k)}

\* C20: the builder calls are made in the order of the source, one for
\* each instance: every call is made when the last Symbol of a complete
\* and valid instance (for make_connection, the EOL of a complete
\* statement) has just been fetched, with the arguments of that instance;
\* every such instance has its call; and later calls belong to later
\* Symbols.  So no call is made for an instance whose closing bracket is
\* missing or whose literal is invalid.
C20_CallsInSourceOrder ==
  /\ \A i \in 1..Len(calls) : \A j \in 1..Len(calls) :
       i < j => calls[i].at < calls[j].at
  /\ \A i \in 1..Len(calls) :
       IF calls[i].fn = "make_connection"
         THEN \E k \in CompleteConnections :
                /\ ConnectionEnd(yielded, k) = calls[i].at
                /\ ConnectionArgs(yielded, k) = calls[i].args
         ELSE \E k \in CompleteInstances :
                /\ InstanceEnd(k) = calls[i].at
                /\ CallOf(i, k)
  /\ \A k \in CompleteInstances : \E i \in 1..Len(calls) : calls[i].at = InstanceEnd(k)
  /\ \A k \in CompleteConnections :
       \E i \in 1..Len(calls) : calls[i].at = ConnectionEnd(yielded, k)

\* The two gates of a first line were made, and the instance of the second
\* line, whose bracket is not closed, has no call.
C20_Witness ==
  /\ pc = "done"
  /\ Len(file) = 2
  /\ Len(calls) = 2
  /\ calls[1].fn = "make_gate"
  /\ calls[2].fn = "make_gate"
  /\ calls[1].device_kind = "NAND"
  /\ err.message = "Expecting close bracket"
  /\ Cardinality(CompleteInstances) = 2

====
